---- MODULE Spec2Model ----
(***************************************************************************)
(* Model of the command-line sales management tool (scr/main.py).          *)
(*                                                                         *)
(* Python values are tagged records ([t |-> "float", v |-> 5], ...), JSON  *)
(* documents are tagged records of their own ([j |-> "number", ...]), and  *)
(* strings are TLA+ strings.  Amounts are whole numbers (5 stands for      *)
(* 5.00); NaN and the infinities are outside the model.  A conversion      *)
(* between text and a value (float(), fromisoformat(), json.load) is the   *)
(* inverse, over the modelled values, of the function that renders it.     *)
(***************************************************************************)
EXTENDS Integers, Sequences, FiniteSets, TLC

\* ------------------------------------------------------------------ bounds
\* Longest array in the data file at start-up.
MaxFileLen == 2
\* Number of sales a run may add.
MaxAdds == 1
\* Last calendar day the clock reaches (days are 2024-01-01 .. 2024-01-0<MaxDay>).
MaxDay == 2
\* Last second of a day the clock reaches (00:00:00 .. 00:00:0<MaxSec>).
MaxSec == 1
\* Number of reports a run may write.
MaxReports == 2

\* ------------------------------------------------------- program constants
DEFAULT_ADMIN_PASSWORD == "admin123"
MAX_LOGIN_ATTEMPTS == 3
\* Largest magnitude float() converts an int to (sys.float_info.max, scaled
\* down): float() of a larger int raises OverflowError.
FloatMax == 100

\* ------------------------------------------------------------ Python values
PyNone == [t |-> "None"]
PyInt(v) == [t |-> "int", v |-> v]
PyFloat(v) == [t |-> "float", v |-> v]
PyStr(s) == [t |-> "str", s |-> s]
PyList(xs) == [t |-> "list", xs |-> xs]
PyDict(d) == [t |-> "dict", d |-> d]

\* Outcome of an expression inside a try block: a value or a raised exception.
Val(v) == [raised |-> "", val |-> v]
Raise(e) == [raised |-> e, val |-> PyNone]

\* The amounts the model knows; HugeInt is an integer beyond the float range.
HugeInt == FloatMax + 1
Amounts == {-3, 0, 3, 5, 10}
Days == 1..MaxDay
Secs == 0..MaxSec
Micros == {0, 1}

\* ------------------------------------------------------------------- time
\* datetime values: calendar day, second of the day, microsecond.
DateTime(day, sec, us) == [day |-> day, sec |-> sec, us |-> us]
DateTimes == [day : Days, sec : Secs, us : Micros]

\* strftime("%Y-%m-%d")
StrfDate(dt) == "2024-01-0" \o ToString(dt.day)

\* strftime("%H:%M:%S")
StrfTime(dt) == "00:00:0" \o ToString(dt.sec)

\* datetime.isoformat(timespec="seconds"): the microseconds are dropped.
IsoFormat(dt) == StrfDate(dt) \o "T" \o StrfTime(dt)

\* datetime.fromisoformat: accepts "YYYY-MM-DDTHH:MM:SS" and the date alone
\* (midnight); anything else is a ValueError.
IsoTexts ==
  [dt \in {x \in DateTimes : x.us = 0} |->
     IF dt.sec = 0 THEN {IsoFormat(dt), StrfDate(dt)} ELSE {IsoFormat(dt)}]
IsoParsed == UNION {{<<s, dt>> : s \in IsoTexts[dt]} : dt \in DOMAIN IsoTexts}
FromIsoFormat(s) ==
  IF \E e \in IsoParsed : e[1] = s
  THEN Val((CHOOSE e \in IsoParsed : e[1] = s)[2])
  ELSE Raise("ValueError")

\* datetime.date()
DateOf(dt) == dt.day

\* ------------------------------------------------------------ conversions
\* repr() of a float, as json.dump writes it: always with a fraction.
FloatRepr(v) == ToString(v) \o ".0"

\* float(text): surrounding blanks are ignored, a decimal literal with or
\* without a fraction is accepted, anything else raises ValueError.
FloatLiterals(v) == {ToString(v), FloatRepr(v), " " \o ToString(v) \o " "}
FloatParsed == UNION {{<<s, v>> : s \in FloatLiterals(v)} : v \in Amounts}
FloatOfStr(s) ==
  IF \E e \in FloatParsed : e[1] = s
  THEN Val(PyFloat((CHOOSE e \in FloatParsed : e[1] = s)[2]))
  ELSE Raise("ValueError")

\* float(x) for any Python value x.
PyFloatOf(x) ==
  CASE x.t = "float" -> Val(x)
    [] x.t = "int" -> IF x.v > FloatMax \/ x.v < -FloatMax
                      THEN Raise("OverflowError")
                      ELSE Val(PyFloat(x.v))
    [] x.t = "str" -> FloatOfStr(x.s)
    [] OTHER -> Raise("TypeError")

\* str(x) for any Python value x.
PyStrOf(x) ==
  CASE x.t = "str" -> x.s
    [] x.t = "int" -> ToString(x.v)
    [] x.t = "float" -> FloatRepr(x.v)
    [] x.t = "None" -> "None"
    [] x.t = "list" -> "[]"
    [] OTHER -> "{}"

\* record[key]: a dict raises KeyError on a missing key, every other type
\* raises TypeError on a string subscript.
Subscript(record, key) ==
  IF record.t = "dict"
  THEN IF key \in DOMAIN record.d THEN Val(record.d[key]) ELSE Raise("KeyError")
  ELSE Raise("TypeError")

\* Lines the user may type, without surrounding blanks.
EnvPassword == "s3cret"
Words == {DEFAULT_ADMIN_PASSWORD, EnvPassword, "guess", "",
          "0", "3", "5", "-3", "abc", "1", "2", "4", "9"}

\* str.strip() of a line of input: the line with its surrounding blanks removed.
Padded(s) == " " \o s \o " "
PaddedWords == {<<Padded(s), s>> : s \in Words}
Strip(raw) ==
  IF \E e \in PaddedWords : e[1] = raw
  THEN (CHOOSE e \in PaddedWords : e[1] = raw)[2]
  ELSE raw

\* ------------------------------------------------------- parse_sale_record
\* The try block of parse_sale_record, statement by statement: the first
\* statement that raises decides the exception.
ParseAttempt(record) ==
  LET ts == Subscript(record, "timestamp")
      am == Subscript(record, "amount")
      amount == IF am.raised = "" THEN PyFloatOf(am.val) ELSE am
      parsed_time == FromIsoFormat(PyStrOf(ts.val))
  IN  IF ts.raised # "" THEN [raised |-> ts.raised]
      ELSE IF amount.raised # "" THEN [raised |-> amount.raised]
      ELSE IF parsed_time.raised # "" THEN [raised |-> parsed_time.raised]
      ELSE [raised |-> "", time |-> parsed_time.val, amount |-> amount.val.v]

\* The exceptions the except clause of parse_sale_record catches.
ParseCaught == {"KeyError", "TypeError", "ValueError"}

\* parse_sale_record: kind "pair" with (time, amount), kind "None", or kind
\* "raise" when the exception is not one the except clause names.
NoneResult == [kind |-> "None"]
parse_sale_record(record) ==
  LET a == ParseAttempt(record)
  IN  IF a.raised = "" THEN [kind |-> "pair", time |-> a.time, amount |-> a.amount]
      ELSE IF a.raised \in ParseCaught THEN NoneResult
      ELSE [kind |-> "raise", exc |-> a.raised]

\* -------------------------------------------------------------------- JSON
JNull == [j |-> "null"]
JNumber(lit) == [j |-> "number", lit |-> lit]
JString(s) == [j |-> "string", s |-> s]
JArray(items) == [j |-> "array", items |-> items]
JObject(members) == [j |-> "object", members |-> members]

\* The Python numbers a JSON number literal may stand for.
PyNumbers == {PyInt(v) : v \in Amounts \cup {HugeInt}} \cup {PyFloat(v) : v \in Amounts}

\* json.dump of a number: an int as its digits, a float as its repr.
NumberLit(x) == IF x.t = "float" THEN FloatRepr(x.v) ELSE ToString(x.v)

NumberParsed == {<<NumberLit(x), x>> : x \in PyNumbers}

\* json.dump of one value.
RECURSIVE JsonDump(_)
JsonDump(x) ==
  CASE x.t = "None" -> JNull
    [] x.t \in {"int", "float"} -> JNumber(NumberLit(x))
    [] x.t = "str" -> JString(x.s)
    [] x.t = "list" -> JArray([i \in DOMAIN x.xs |-> JsonDump(x.xs[i])])
    [] x.t = "dict" -> JObject([k \in DOMAIN x.d |-> JsonDump(x.d[k])])

\* json.load of one value: a literal with a fraction is a float, one without
\* is an int of any size.
RECURSIVE JsonLoad(_)
JsonLoad(doc) ==
  CASE doc.j = "null" -> PyNone
    [] doc.j = "number" -> (CHOOSE e \in NumberParsed : e[1] = doc.lit)[2]
    [] doc.j = "string" -> PyStr(doc.s)
    [] doc.j = "array" -> PyList([i \in DOMAIN doc.items |-> JsonLoad(doc.items[i])])
    [] doc.j = "object" -> PyDict([k \in DOMAIN doc.members |-> JsonLoad(doc.members[k])])

\* ---------------------------------------------------------- the data file
\* What DATA_FILE may be: missing, not openable, bytes that are not UTF-8,
\* text that is not JSON, or a JSON document.
FileAbsent == [kind |-> "absent"]
FileUnreadable == [kind |-> "unreadable"]
FileNotUtf8 == [kind |-> "not-utf8"]
FileNotJson == [kind |-> "not-json"]
FileJson(doc) == [kind |-> "json", doc |-> doc]

\* The exceptions the except clause of load_sales_data catches.
LoadCaught == {"JSONDecodeError", "OSError"}

\* The body of load_sales_data up to its except clause.
LoadAttempt(f) ==
  CASE f.kind = "absent" -> Val(PyList(<<>>))
    [] f.kind = "unreadable" -> Raise("OSError")
    [] f.kind = "not-utf8" -> Raise("UnicodeDecodeError")
    [] f.kind = "not-json" -> Raise("JSONDecodeError")
    [] f.kind = "json" -> LET data == JsonLoad(f.doc)
                          IN  Val(IF data.t = "list" THEN data ELSE PyList(<<>>))

\* load_sales_data: the list, or the exception that escapes.
load_sales_data(f) ==
  LET a == LoadAttempt(f)
  IN  IF a.raised \in LoadCaught THEN Val(PyList(<<>>)) ELSE a

\* A faulty save: only the newest record is written.
save_newest_only(list) ==
  FileJson(JsonDump(PyList(IF list = <<>> THEN list ELSE <<list[Len(list)]>>)))

\* save_sales_data: the whole list is written over the file.
save_sales_data(list) == FileJson(JsonDump(PyList(list)))

\* ------------------------------------------------------------- aggregation
RECURSIVE SumSeq(_)
\* sum(amounts), left to right.
SumSeq(xs) == IF xs = <<>> THEN 0 ELSE SumSeq(SubSeq(xs, 1, Len(xs) - 1)) + xs[Len(xs)]

RECURSIVE MaxSeq(_)
\* max(amounts) of a non-empty list.
MaxSeq(xs) ==
  IF Len(xs) = 1 THEN xs[1]
  ELSE LET m == MaxSeq(SubSeq(xs, 1, Len(xs) - 1))
       IN  IF xs[Len(xs)] > m THEN xs[Len(xs)] ELSE m

RECURSIVE MinSeq(_)
\* min(amounts) of a non-empty list.
MinSeq(xs) ==
  IF Len(xs) = 1 THEN xs[1]
  ELSE LET m == MinSeq(SubSeq(xs, 1, Len(xs) - 1))
       IN  IF xs[Len(xs)] < m THEN xs[Len(xs)] ELSE m

\* statistics.mean: the exact quotient, kept as numerator and denominator.
Mean(xs) == [num |-> SumSeq(xs), den |-> Len(xs)]

\* The results of parse_sale_record over the list, in order.
ParsedAll(list) == [i \in DOMAIN list |-> parse_sale_record(list[i])]

\* Whether some record makes parse_sale_record raise, and the first exception.
SomeRaises(list) == \E i \in DOMAIN list : parse_sale_record(list[i]).kind = "raise"
FirstRaised(list) ==
  LET parsed == ParsedAll(list)
  IN  parsed[CHOOSE i \in DOMAIN list :
               /\ parsed[i].kind = "raise"
               /\ \A k \in 1..(i - 1) : parsed[k].kind # "raise"].exc

IsPair(p) == p.kind = "pair"

\* valid_sales of generate_sales_report: the parsed pairs, in list order.
ValidSales(list) == SelectSeq(ParsedAll(list), IsPair)

AmountsOf(valid) == [i \in DOMAIN valid |-> valid[i].amount]

\* The total of show_daily_total: amounts of the valid records dated today.
DailyTotal(list, today) ==
  LET OnDay(p) == DateOf(p.time) = today
  IN  SumSeq(AmountsOf(SelectSeq(ValidSales(list), OnDay)))

\* grouped_by_day, as the report lists it: one (day, total) line per date
\* present, ascending by date.
RECURSIVE DayLines(_, _)
DayLines(valid, d) ==
  IF d > MaxDay THEN <<>>
  ELSE LET OnDay(p) == DateOf(p.time) = d
           hits == SelectSeq(valid, OnDay)
           line == IF hits = <<>> THEN <<>>
                   ELSE <<[day |-> StrfDate(DateTime(d, 0, 0)),
                           total |-> SumSeq(AmountsOf(hits))]>>
       IN  line \o DayLines(valid, d + 1)

\* report_lines of generate_sales_report for a non-empty valid_sales.
ReportText(valid, now) ==
  [generated |-> StrfDate(now) \o " " \o StrfTime(now),
   records |-> Len(valid),
   total |-> SumSeq(AmountsOf(valid)),
   average |-> Mean(AmountsOf(valid)),
   highest |-> MaxSeq(AmountsOf(valid)),
   lowest |-> MinSeq(AmountsOf(valid)),
   daily |-> DayLines(valid, 1)]

\* strftime("sales_report_%Y%m%d_%H%M%S.txt")
ReportName(now) ==
  "sales_report_2024010" \o ToString(now.day) \o "_00000" \o ToString(now.sec) \o ".txt"

\* The lines view_sales prints: a valid record with its amount and time, an
\* invalid one as skipped.
ViewLines(list) ==
  [i \in DOMAIN list |->
     LET p == parse_sale_record(list[i])
     IN  IF p.kind = "pair"
         THEN [index |-> i, amount |-> p.amount,
               time |-> StrfDate(p.time) \o " " \o StrfTime(p.time)]
         ELSE [index |-> i, skipped |-> TRUE]]

\* ------------------------------------------------------------------ state
VARIABLES
  pc,            \* where main() is: "login", "authenticated", "menu", "denied", "exited", "crashed"
  admin_password,\* authenticate: the password expected
  attempt,       \* authenticate: prompts made so far
  password,      \* authenticate: the stripped line last entered
  file,          \* DATA_FILE
  sales,         \* menu_loop: the in-memory list
  clock,         \* the wall clock, to the second
  reportsDir,    \* whether REPORTS_DIR exists
  reportFiles,   \* REPORTS_DIR: file name -> content
  out,           \* what the last operation printed
  adds,          \* sales added in this run
  generated      \* reports written in this run

vars == <<pc, admin_password, attempt, password, file, sales, clock, reportsDir,
          reportFiles, out, adds, generated>>

\* get_admin_password: SMS_ADMIN_PASSWORD ("" when unset) or the default.
get_admin_password(env) == IF env = "" THEN DEFAULT_ADMIN_PASSWORD ELSE env

\* datetime.now(): the clock's second, with some microsecond.
Now == {DateTime(clock.day, clock.sec, us) : us \in Micros}

\* What an operation printed: the operation, its message, and the values
\* shown with it (a record; Nothing when the message is all).
Printed(op, msg, data) == [op |-> op, msg |-> msg, data |-> data]
Nothing == [nothing |-> TRUE]

\* ---------------------------------------------------- data files at start
Stamp(d) == JString(IsoFormat(DateTime(d, 0, 0)))
JRecord(amount, timestamp) == JObject([amount |-> amount, timestamp |-> timestamp])

\* The records a data file may hold: written by the tool, edited by hand, or
\* damaged.
SampleRecords ==
  { JRecord(JNumber("10.0"), Stamp(1)),                 \* as add_sale writes it
    JRecord(JNumber("5"), JString("2024-01-01")),       \* int amount, date only
    JRecord(JNumber("-3.0"), Stamp(MaxDay)),            \* negative amount
    JRecord(JString("abc"), Stamp(1)),                  \* amount is no number
    JObject([amount |-> JNumber("5.0")]),               \* no timestamp
    JRecord(JNumber("3.0"), JNumber("5")),              \* timestamp is no string
    JArray(<<>>),                                       \* not a map
    JRecord(JNumber(ToString(HugeInt)), Stamp(1)) }     \* int beyond the float range

RECURSIVE SeqsUpTo(_, _)
SeqsUpTo(S, n) ==
  IF n = 0 THEN {<<>>}
  ELSE LET shorter == SeqsUpTo(S, n - 1)
       IN  shorter \cup {Append(q, x) : q \in shorter, x \in S}

InitialFiles ==
  {FileAbsent, FileUnreadable, FileNotUtf8, FileNotJson,
   FileJson(JObject([amount |-> JNumber("5.0")])), FileJson(JNull)}
  \cup {FileJson(JArray(items)) : items \in SeqsUpTo(SampleRecords, MaxFileLen)}

Init ==
  /\ pc = "login"
  /\ admin_password \in {get_admin_password(env) : env \in {"", EnvPassword}}
  /\ attempt = 0
  /\ password = ""
  /\ file \in InitialFiles
  /\ sales = <<>>
  /\ clock = [day |-> 1, sec |-> 0]
  /\ reportsDir = FALSE
  /\ reportFiles = <<>>
  /\ out = Printed("start", "", Nothing)
  /\ adds = 0
  /\ generated = 0

\* ----------------------------------------------------------- authenticate
PasswordInputs == {DEFAULT_ADMIN_PASSWORD, Padded(DEFAULT_ADMIN_PASSWORD), EnvPassword, "guess"}

\* A faulty comparison: the default password is accepted whatever the
\* environment sets.
PasswordMatchesOrDefault(entered, expected) ==
  entered = expected \/ entered = DEFAULT_ADMIN_PASSWORD

\* The comparison of authenticate.
PasswordMatches(entered, expected) == entered = expected

\* One pass of the loop of authenticate: prompt, compare, count.
Authenticate(raw) ==
  /\ pc = "login"
  /\ attempt < MAX_LOGIN_ATTEMPTS
  /\ attempt' = attempt + 1
  /\ password' = Strip(raw)
  /\ IF PasswordMatches(password', admin_password)
     THEN pc' = "authenticated" /\ out' = Printed("login", "Login successful.", Nothing)
     ELSE IF MAX_LOGIN_ATTEMPTS - attempt' > 0
     THEN pc' = "login" /\ out' = Printed("login", "Invalid password.", [attempts_left |-> MAX_LOGIN_ATTEMPTS - attempt'])
     ELSE pc' = "denied" /\ out' = Printed("login", "Access denied.", Nothing)
  /\ UNCHANGED <<admin_password, file, sales, clock, reportsDir, reportFiles, adds, generated>>

\* main calls menu_loop, which loads the data file; the locals of
\* authenticate are gone.
MenuLoopStart ==
  /\ pc = "authenticated"
  /\ LET r == load_sales_data(file)
     IN  IF r.raised = ""
         THEN pc' = "menu" /\ sales' = r.val.xs /\ out' = Printed("load", "", Nothing)
         ELSE pc' = "crashed" /\ sales' = sales /\ out' = Printed("load", r.raised, Nothing)
  /\ attempt' = 0
  /\ password' = ""
  /\ admin_password' = ""
  /\ UNCHANGED <<file, clock, reportsDir, reportFiles, adds, generated>>

\* -------------------------------------------------------------- menu loop
ChoiceInputs == {"1", "2", "3", "4", "5", Padded("1"), "9", ""}
\* choice = input(...).strip()
Choices == {Strip(raw) : raw \in ChoiceInputs}
AmountInputs == {"0", Padded("3"), "-3", "abc"}

\* A faulty try block: the sign of the amount is not looked at.
EnteredAmountAnySign(amount_text) == FloatOfStr(amount_text)

\* The try block of add_sale: the amount, or the ValueError of a text that
\* is no number or of a negative amount.
EnteredAmount(amount_text) ==
  LET amount == FloatOfStr(amount_text)
  IN  IF amount.raised = "" /\ amount.val.v < 0 THEN Raise("ValueError") ELSE amount

\* The record add_sale builds.
NewRecord(amount, now) ==
  PyDict([amount |-> amount, timestamp |-> PyStr(IsoFormat(now))])

\* A faulty append: the record is put first.
PrependSale(list, record) == <<record>> \o list

\* sales.append(record)
AppendSale(list, record) == Append(list, record)

\* What becomes of the data file when add_sale saves the list.
FileAfterSave(f, list) == IF f.kind = "unreadable" THEN f ELSE save_sales_data(list)

\* Option 1: add_sale.
AddSale(choice, raw) ==
  /\ pc = "menu"
  /\ choice = "1"
  /\ LET amount_text == Strip(raw)
         amount == EnteredAmount(amount_text)
     IN  IF amount.raised # ""
         THEN /\ out' = Printed("add", "Invalid amount.", [text |-> amount_text])
              /\ UNCHANGED <<pc, sales, file, adds>>
         ELSE /\ adds < MaxAdds
              /\ \E now \in Now : sales' = AppendSale(sales, NewRecord(amount.val, now))
              /\ file' = FileAfterSave(file, sales')
              /\ adds' = adds + 1
              /\ IF file.kind = "unreadable"
                 THEN pc' = "crashed" /\ out' = Printed("add", "OSError", [text |-> amount_text])
                 ELSE pc' = "menu" /\ out' = Printed("add", "added", [text |-> amount_text])
  /\ UNCHANGED <<admin_password, attempt, password, clock, reportsDir, reportFiles, generated>>

\* Option 2: view_sales.
ViewSales(choice) ==
  /\ pc = "menu"
  /\ choice = "2"
  /\ IF sales = <<>>
     THEN pc' = pc /\ out' = Printed("view", "No sales records found.", Nothing)
     ELSE IF SomeRaises(sales)
     THEN pc' = "crashed" /\ out' = Printed("view", FirstRaised(sales), Nothing)
     ELSE /\ pc' = pc
          /\ out' = Printed("view",
                            IF ValidSales(sales) = <<>>
                            THEN "No valid sales records to display." ELSE "",
                            [lines |-> ViewLines(sales)])
  /\ UNCHANGED <<admin_password, attempt, password, file, sales, clock, reportsDir,
                 reportFiles, adds, generated>>

\* Option 3: show_daily_total.
ShowDailyTotal(choice) ==
  /\ pc = "menu"
  /\ choice = "3"
  /\ IF SomeRaises(sales)
     THEN pc' = "crashed" /\ out' = Printed("daily", FirstRaised(sales), Nothing)
     ELSE \E now \in Now :
            /\ pc' = pc
            /\ out' = Printed("daily", "Today's total sales", [total |-> DailyTotal(sales, DateOf(now))])
  /\ UNCHANGED <<admin_password, attempt, password, file, sales, clock, reportsDir,
                 reportFiles, adds, generated>>

\* REPORTS_DIR.mkdir(exist_ok=True), reached only with a valid record.
ReportsDirAfter(dir, valid) == IF valid = <<>> THEN dir ELSE TRUE

\* The files of the reports directory after report_path is written.
WriteReport(files, name, text) ==
  [n \in DOMAIN files \cup {name} |-> IF n = name THEN text ELSE files[n]]

\* Option 4: generate_sales_report.
GenerateSalesReport(choice) ==
  /\ pc = "menu"
  /\ choice = "4"
  /\ IF SomeRaises(sales)
     THEN /\ pc' = "crashed"
          /\ out' = Printed("report", FirstRaised(sales), Nothing)
          /\ UNCHANGED <<reportsDir, reportFiles, generated>>
     ELSE LET valid_sales == ValidSales(sales)
          IN  IF valid_sales = <<>>
              THEN /\ pc' = pc
                   /\ out' = Printed("report", "No valid sales records found.", Nothing)
                   /\ reportsDir' = ReportsDirAfter(reportsDir, valid_sales)
                   /\ UNCHANGED <<reportFiles, generated>>
              ELSE /\ generated < MaxReports
                   /\ \E now \in Now :
                        LET report_text == ReportText(valid_sales, now)
                        IN  /\ reportFiles' = WriteReport(reportFiles, ReportName(now), report_text)
                            /\ out' = Printed("report", ReportName(now), report_text)
                   /\ reportsDir' = ReportsDirAfter(reportsDir, valid_sales)
                   /\ generated' = generated + 1
                   /\ pc' = pc
  /\ UNCHANGED <<admin_password, attempt, password, file, sales, clock, adds>>

\* Option 5: leave the loop.
Exit(choice) ==
  /\ pc = "menu"
  /\ choice = "5"
  /\ pc' = "exited"
  /\ out' = Printed("exit", "Goodbye!", Nothing)
  /\ UNCHANGED <<admin_password, attempt, password, file, sales, clock, reportsDir,
                 reportFiles, adds, generated>>

\* Any other line: the menu is shown again.
InvalidChoice(choice) ==
  /\ pc = "menu"
  /\ choice \notin {"1", "2", "3", "4", "5"}
  /\ out' = Printed("menu", "Invalid choice.", Nothing)
  /\ UNCHANGED <<pc, admin_password, attempt, password, file, sales, clock, reportsDir,
                 reportFiles, adds, generated>>

\* Time passes while the menu waits for input: to the next second, or to
\* midnight of the next day.
Tick ==
  /\ pc = "menu"
  /\ \/ clock.sec < MaxSec /\ clock' = [clock EXCEPT !.sec = @ + 1]
     \/ clock.day < MaxDay /\ clock' = [day |-> clock.day + 1, sec |-> 0]
  /\ UNCHANGED <<pc, admin_password, attempt, password, file, sales, reportsDir,
                 reportFiles, out, adds, generated>>

\* The steps of menu_loop, for any line typed at its prompt.
AddStep == \E choice \in Choices, raw \in AmountInputs : AddSale(choice, raw)
ViewStep == \E choice \in Choices : ViewSales(choice)
DailyStep == \E choice \in Choices : ShowDailyTotal(choice)
ReportStep == \E choice \in Choices : GenerateSalesReport(choice)
ExitStep == \E choice \in Choices : Exit(choice)
InvalidStep == \E choice \in Choices : InvalidChoice(choice)

Next ==
  \/ \E raw \in PasswordInputs : Authenticate(raw)
  \/ MenuLoopStart
  \/ AddStep
  \/ ViewStep
  \/ DailyStep
  \/ ReportStep
  \/ ExitStep
  \/ InvalidStep
  \/ Tick

Spec == Init /\ [][Next]_vars

\* ------------------------------------------------------------- properties
\* What the properties say of a list, stated over its records rather than
\* computed by the program's loops.
Parses(list, i) == parse_sale_record(list[i]).kind = "pair"
Rejected(list, i) == parse_sale_record(list[i]).kind = "None"
ValidIndexes(list) == {i \in DOMAIN list : Parses(list, i)}
AmountAt(list, i) == parse_sale_record(list[i]).amount
DayAt(list, i) == parse_sale_record(list[i]).time.day

RECURSIVE SumOver(_, _)
SumOver(list, I) ==
  IF I = {} THEN 0
  ELSE LET i == CHOOSE k \in I : TRUE
       IN  AmountAt(list, i) + SumOver(list, I \ {i})

IsPrefix(a, b) == Len(a) <= Len(b) /\ SubSeq(b, 1, Len(a)) = a

\* The text is negative or is no number.
Unacceptable(text) ==
  LET r == FloatOfStr(text) IN r.raised # "" \/ r.val.v < 0

\* C1: an add_sale whose amount is negative or is no number is rejected and
\* changes nothing: the list, the data file and the position in the menu
\* are as before.
C1_RejectedAddChangesNothing ==
  [][out'.op = "add" /\ AddStep /\ Unacceptable(out'.data.text)
       => /\ out'.msg = "Invalid amount."
          /\ sales' = sales
          /\ file' = file
          /\ adds' = adds
          /\ pc' = pc]_vars

C1_Witness ==
  /\ out = Printed("add", "Invalid amount.", [text |-> "-3"])
  /\ Len(sales) = MaxFileLen
  /\ file.kind = "json"

\* C2: the menu is reached only through a prompt, among the first
\* MAX_LOGIN_ATTEMPTS, whose stripped line equals the expected password;
\* the third failure in a row denies access, after which nothing more
\* happens: no fourth prompt, no menu, no sales operation.
C2_MenuOnlyAfterPassword ==
  /\ [](attempt <= MAX_LOGIN_ATTEMPTS)
  /\ [](pc = "denied" => /\ attempt = MAX_LOGIN_ATTEMPTS
                         /\ password # admin_password
                         /\ sales = <<>>
                         /\ adds = 0
                         /\ generated = 0)
  /\ [][(pc' = "authenticated" /\ pc # "authenticated")
         => /\ pc = "login"
            /\ password' = admin_password
            /\ attempt' \in 1..MAX_LOGIN_ATTEMPTS]_vars
  /\ [][(pc = "login" /\ attempt = MAX_LOGIN_ATTEMPTS - 1 /\ password' # admin_password)
         => pc' = "denied"]_vars
  /\ [][pc' = "menu" => pc \in {"authenticated", "menu"}]_vars
  /\ [][pc # "denied"]_vars

C2_Witness ==
  /\ pc = "denied"
  /\ attempt = MAX_LOGIN_ATTEMPTS
  /\ file.kind = "json"

\* C3: generate_sales_report on a list with no valid record (empty, or
\* holding only records that do not validate) writes no report file, does
\* not create the reports directory and reports "no data"; the menu goes on.
C3_NoDataNoReport ==
  [][(out'.op = "report" /\ ReportStep /\ ValidIndexes(sales) = {})
       => /\ reportFiles' = reportFiles
          /\ reportsDir' = reportsDir
          /\ generated' = generated
          /\ out' = Printed("report", "No valid sales records found.", Nothing)
          /\ pc' = "menu"]_vars

\* Where parse_sale_record raises on no record, the claim of C3 holds: a
\* list whose records are all rejected gets the "no data" message, and
\* without a valid record nothing is written even when the step fails.
NoDataWhenAllRejected ==
  [][out'.op = "report" /\ ReportStep
       => /\ ValidIndexes(sales) = {}
               => /\ reportFiles' = reportFiles
                  /\ reportsDir' = reportsDir
                  /\ generated' = generated
          /\ (\A i \in DOMAIN sales : Rejected(sales, i))
               => /\ out' = Printed("report", "No valid sales records found.", Nothing)
                  /\ pc' = "menu"]_vars

\* The statistics of a report over the valid records of a list.
MaxOver(list, I) == CHOOSE m \in {AmountAt(list, i) : i \in I} :
                      \A i \in I : AmountAt(list, i) <= m
MinOver(list, I) == CHOOSE m \in {AmountAt(list, i) : i \in I} :
                      \A i \in I : m <= AmountAt(list, i)
OnDay(list, d) == {i \in ValidIndexes(list) : DayAt(list, i) = d}
DayText(d) == StrfDate(DateTime(d, 0, 0))

RECURSIVE SumTotals(_)
SumTotals(lines) ==
  IF lines = <<>> THEN 0 ELSE lines[1].total + SumTotals(Tail(lines))

StatisticsHold(list, text) ==
  LET I == ValidIndexes(list)
  IN  /\ text.records = Cardinality(I)
      /\ text.total = SumOver(list, I)
      /\ text.average.num * text.records = text.total * text.average.den
      /\ text.highest = MaxOver(list, I)
      /\ text.lowest = MinOver(list, I)
      /\ \A d \in Days :
           Cardinality({k \in DOMAIN text.daily : text.daily[k].day = DayText(d)})
             = IF OnDay(list, d) = {} THEN 0 ELSE 1
      /\ \A k \in DOMAIN text.daily :
           \E d \in Days : /\ text.daily[k].day = DayText(d)
                           /\ text.daily[k].total = SumOver(list, OnDay(list, d))
      /\ SumTotals(text.daily) = text.total

\* C4: for every list with at least one valid record generate_sales_report
\* reports, over the valid records only, their count, sum, mean, largest
\* and smallest amount, and one total per calendar date; the daily totals
\* add up to the total.
C4_ReportStatistics ==
  [][(out'.op = "report" /\ ReportStep /\ ValidIndexes(sales) # {})
       => /\ pc' = "menu"
          /\ out'.msg = ReportName(DateTime(clock.day, clock.sec, 0))
          /\ StatisticsHold(sales, out'.data)]_vars

\* The statistics are those of C4 whenever the report is written, that is
\* whenever no record of the list makes parse_sale_record raise.
ReportStatisticsWhenWritten ==
  [][(out'.op = "report" /\ ReportStep /\ pc' = "menu" /\ ValidIndexes(sales) # {})
       => StatisticsHold(sales, out'.data)]_vars

\* The report of the records {day 1: 10, day 1: 5, day 2: 3}.
ExampleReport ==
  (/\ pc = "menu"
   /\ out.op = "report"
   /\ out.data # Nothing
   /\ Len(sales) = 3
   /\ \A i \in 1..3 : Parses(sales, i)
   /\ <<AmountAt(sales, 1), AmountAt(sales, 2), AmountAt(sales, 3)>> = <<10, 5, 3>>
   /\ <<DayAt(sales, 1), DayAt(sales, 2), DayAt(sales, 3)>> = <<1, 1, 2>>)
  => /\ out.data.total = 18
     /\ out.data.average = [num |-> 18, den |-> 3]
     /\ out.data.highest = 10
     /\ out.data.lowest = 3
     /\ out.data.daily = <<[day |-> "2024-01-01", total |-> 15],
                           [day |-> "2024-01-02", total |-> 3]>>

\* C5: show_daily_total shows the sum of the amounts of the valid records
\* dated today, whatever the list holds, and 0 when there is none.
C5_DailyTotal ==
  [][(out'.op = "daily" /\ DailyStep)
       => /\ pc' = "menu"
          /\ out'.data = [total |-> SumOver(sales, OnDay(sales, clock.day))]]_vars

\* The total is that of C5 whenever it is shown, that is whenever no record
\* of the list makes parse_sale_record raise.
DailyTotalWhenShown ==
  [][(out'.op = "daily" /\ DailyStep /\ pc' = "menu")
       => out'.data = [total |-> SumOver(sales, OnDay(sales, clock.day))]]_vars

\* C6: after a successful add_sale the data file holds the list in memory:
\* load_sales_data on it returns a list of the same length and order, equal
\* record by record, and every record validates as it did before it was
\* written.
C6_PersistLoadRoundTrip ==
  (pc \in {"menu", "exited"} /\ adds > 0)
    => LET loaded == load_sales_data(file)
       IN  /\ loaded.raised = ""
           /\ Len(loaded.val.xs) = Len(sales)
           /\ \A i \in DOMAIN sales :
                /\ loaded.val.xs[i] = sales[i]
                /\ parse_sale_record(loaded.val.xs[i]) = parse_sale_record(sales[i])

C6_Witness ==
  /\ pc = "menu"
  /\ adds > 0
  /\ Len(sales) = MaxFileLen + 1
  /\ \E i \in DOMAIN sales : Parses(sales, i) /\ sales[i].d.amount.t = "int"
  /\ \E i \in DOMAIN sales : Rejected(sales, i)

\* The timestamp of a record is there and its text is an ISO-8601 date-time.
TimestampParses(record) ==
  /\ Subscript(record, "timestamp").raised = ""
  /\ FromIsoFormat(PyStrOf(Subscript(record, "timestamp").val)).raised = ""

\* The amount of a record is there and is a number, whatever its sign.
AmountIsNumber(record) ==
  /\ Subscript(record, "amount").raised = ""
  /\ LET a == Subscript(record, "amount").val
     IN  \/ a.t \in {"int", "float"}
         \/ a.t = "str" /\ FloatOfStr(a.s).raised = ""

\* C7: parse_sale_record never raises: every record gives a pair or None,
\* and a pair exactly when its timestamp parses and its amount is a number.
C7_ParseNeverRaises ==
  \A i \in DOMAIN sales :
    LET parsed == parse_sale_record(sales[i])
    IN  /\ parsed.kind \in {"pair", "None"}
        /\ parsed.kind = "pair" <=> (TimestampParses(sales[i]) /\ AmountIsNumber(sales[i]))

\* A pair exactly when the timestamp parses and the amount converts to a
\* float, and None or an exception otherwise; a negative amount is a pair.
ParsePairWhenConvertible ==
  \A i \in DOMAIN sales :
    LET parsed == parse_sale_record(sales[i])
        am == Subscript(sales[i], "amount")
    IN  /\ parsed.kind = "pair"
          <=> /\ TimestampParses(sales[i])
              /\ am.raised = ""
              /\ PyFloatOf(am.val).raised = ""
        /\ parsed.kind = "raise"
          => /\ AmountIsNumber(sales[i])
             /\ parsed.exc = "OverflowError"

\* C8: every report written is a file of its own: the reports directory
\* holds as many files as reports were written.
C8_OneFilePerReport == Cardinality(DOMAIN reportFiles) = generated

\* C9: a data file that is missing, cannot be read, cannot be parsed or
\* holds no array is an empty dataset: the menu starts with no records.
C9_DamagedFileIsEmpty ==
  [][(MenuLoopStart /\ ~(file.kind = "json" /\ file.doc.j = "array"))
       => (pc' = "menu" /\ sales' = <<>>)]_vars

\* Every such file but one that is not UTF-8 text is an empty dataset.
DecodableFileIsEmpty ==
  [][(MenuLoopStart /\ file.kind # "not-utf8" /\ ~(file.kind = "json" /\ file.doc.j = "array"))
       => (pc' = "menu" /\ sales' = <<>>)]_vars

\* C10: the list only grows at its end: every step leaves the old list a
\* prefix of the new one; a successful add_sale appends one record; a
\* rejected add, view_sales, show_daily_total, generate_sales_report, an
\* invalid choice and exit leave the list and the data file as they are;
\* and the list loaded at start-up holds every element of the file's array,
\* valid or not, in the file's order.
C10_AppendOnly ==
  /\ [][IsPrefix(sales, sales')]_vars
  /\ [][(out'.op = "add" /\ AddStep /\ out'.msg # "Invalid amount.")
         => /\ Len(sales') = Len(sales) + 1
            /\ SubSeq(sales', 1, Len(sales)) = sales
            /\ Parses(sales', Len(sales'))]_vars
  /\ [][(\/ out'.op = "add" /\ AddStep /\ out'.msg = "Invalid amount."
         \/ out'.op = "view" /\ ViewStep
         \/ out'.op = "daily" /\ DailyStep
         \/ out'.op = "report" /\ ReportStep
         \/ out'.op = "menu" /\ InvalidStep
         \/ out'.op = "exit" /\ ExitStep)
         => (sales' = sales /\ file' = file)]_vars
  /\ [][(MenuLoopStart /\ file.kind = "json" /\ file.doc.j = "array")
         => /\ Len(sales') = Len(file.doc.items)
            /\ \A i \in DOMAIN sales' : JsonDump(sales'[i]) = file.doc.items[i]]_vars

C10_Witness ==
  /\ pc = "menu"
  /\ adds = MaxAdds
  /\ Len(sales) = MaxFileLen + MaxAdds
  /\ Rejected(sales, 1)
  /\ out.op = "report"
  /\ reportFiles # <<>>
====
